---- MODULE Spec2Model ----
(***************************************************************************)
(* Model of semantiva_chain: WorkflowExplainer.explain, its prompt         *)
(* composer _generate_prompt, ComponentMetadataExtractor.get_metadata and  *)
(* the two LLMInterface implementations (MockLLM, OpenAILLM).              *)
(*                                                                         *)
(* Python values are modelled as records [t, s, items]:                    *)
(*   t = "absent"  the key is not in the dict (only for dict lookups)      *)
(*   t = "none"    None                                                    *)
(*   t = "str"     the string s                                            *)
(*   t = "dict"    a dict whose items() are the <<key, value>> pairs items *)
(*   t = "list"    a list of the strings items                             *)
(* A node configuration is a record [processor, context_keyword,           *)
(* parameters] of such values, the dict's keys in that insertion order.    *)
(***************************************************************************)
EXTENDS Integers, Sequences, FiniteSets, TLC

(* llm                  self.llm of the constructed WorkflowExplainer: its provider *)
(* pc                   position of the current explain call:                       *)
(*                      "idle" (constructed, not called yet), "check" (at line 61), *)
(*                      "extract" (at line 65), "compose" (at line 71), "llm" (at   *)
(*                      line 76), "returned", "raised" (an exception left explain)  *)
(* node_configurations  the argument of the current call                            *)
(* idx                  1-based position of the node the for loop is at             *)
(* processor_name, components, prompt   the locals of explain; processor_name is the *)
(*                      value of node.get("processor"), None or a str (None also    *)
(*                      while the local is not bound yet)                           *)
(* result               the string explain returned                                 *)
(* raised               the exception that left explain                             *)
(* get_class_calls      the names passed to ComponentLoader.get_class in this call  *)
(* compose_calls        the <<nodes, components>> passed to _generate_prompt        *)
(* llm_calls            the [prompt, response] of each generate_response call       *)
VARIABLES llm, pc, node_configurations, idx, processor_name, components,
          prompt, result, raised, get_class_calls, compose_calls, llm_calls

vars == <<llm, pc, node_configurations, idx, processor_name, components,
          prompt, result, raised, get_class_calls, compose_calls, llm_calls>>

(* Longest node_configurations list the model passes to explain. *)
MaxSteps == 2

----------------------------------------------------------------------------
(* Python values *)

Absent == [t |-> "absent", s |-> "", items |-> <<>>]

None == [t |-> "none", s |-> "", items |-> <<>>]

Str(x) == [t |-> "str", s |-> x, items |-> <<>>]

Dict(its) == [t |-> "dict", s |-> "", items |-> its]

List(its) == [t |-> "list", s |-> "", items |-> its]

(* "\n".join(parts) and ", ".join(parts) *)
RECURSIVE Join(_, _)
Join(sep, parts) ==
    IF parts = <<>> THEN ""
    ELSE IF Len(parts) = 1 THEN parts[1]
    ELSE parts[1] \o sep \o Join(sep, Tail(parts))

(* repr() of a str without quote characters *)
ReprStr(x) == "'" \o x \o "'"

(* repr() of a value *)
Repr(v) ==
    CASE v.t = "none" -> "None"
      [] v.t = "str" -> ReprStr(v.s)
      [] v.t = "dict" ->
            "{" \o Join(", ", [j \in 1..Len(v.items) |->
                      ReprStr(v.items[j][1]) \o ": " \o ReprStr(v.items[j][2])]) \o "}"
      [] v.t = "list" ->
            "[" \o Join(", ", [j \in 1..Len(v.items) |-> ReprStr(v.items[j])]) \o "]"

(* str() of a value, as an f-string field renders it *)
PyStr(v) == IF v.t = "str" THEN v.s ELSE Repr(v)

(* truthiness of a value; an absent key reads as None through dict.get *)
Truthy(v) ==
    CASE v.t \in {"absent", "none"} -> FALSE
      [] v.t = "str" -> v.s # ""
      [] OTHER -> v.items # <<>>

(* the keys of a node dict that are present, in insertion order *)
NodeKeys(node) ==
    (IF node.processor.t # "absent" THEN <<"processor">> ELSE <<>>)
    \o (IF node.context_keyword.t # "absent" THEN <<"context_keyword">> ELSE <<>>)
    \o (IF node.parameters.t # "absent" THEN <<"parameters">> ELSE <<>>)

(* f"{node}": the repr of the node dict *)
NodeRepr(node) ==
    LET keys == NodeKeys(node)
    IN "{" \o Join(", ", [j \in 1..Len(keys) |->
                 ReprStr(keys[j]) \o ": " \o Repr(node[keys[j]])]) \o "}"

----------------------------------------------------------------------------
(* Component classes known to the registry (ComponentLoader), described by *)
(* what ComponentMetadataExtractor reads from a class:                     *)
(*   module      cls.__module__                                            *)
(*   mro         the __name__ of each class of inspect.getmro(cls)         *)
(*   input_data_type, output_data_type                                     *)
(*               [k, name]: k = "absent" (no such attribute),              *)
(*               "noncallable", "ok" (calling it returns a type named      *)
(*               name) or "raises" (calling it raises TypeError)           *)
(*   process_logic                                                         *)
(*               [k, params, doc]: k = "absent" or "defined"; params are   *)
(*               the parameters of its signature, each [name, ann, tname]  *)
(*               with ann = "empty" (no annotation), "type" (a class named *)
(*               tname) or "str" (a string annotation, which has no        *)
(*               __name__)                                                 *)
(*   doc         inspect.getdoc(cls): None or a str                        *)

NoAttr == [k |-> "absent", name |-> ""]

Factory(k, name) == [k |-> k, name |-> name]

Param(name, ann, tname) == [name |-> name, ann |-> ann, tname |-> tname]

Classes ==
    [A |-> [module |-> "lib.a",
            mro |-> <<"A", "Base", "object">>,
            input_data_type |-> Factory("ok", "Image"),
            output_data_type |-> Factory("ok", "Image"),
            process_logic |-> [k |-> "defined",
                               params |-> <<Param("self", "empty", ""),
                                            Param("data", "type", "Image"),
                                            Param("gain", "empty", "")>>,
                               doc |-> Str("Scale.")],
            doc |-> Str("Does A.")],
     B |-> [module |-> "lib.b",
            mro |-> <<"B", "object">>,
            input_data_type |-> Factory("noncallable", ""),
            output_data_type |-> Factory("ok", "Text"),
            process_logic |-> [k |-> "absent", params |-> <<>>, doc |-> None],
            doc |-> None],
     F |-> [module |-> "lib.f",
            mro |-> <<"F", "object">>,
            input_data_type |-> Factory("raises", ""),
            output_data_type |-> NoAttr,
            process_logic |-> [k |-> "absent", params |-> <<>>, doc |-> None],
            doc |-> Str("Does F.")],
     S |-> [module |-> "lib.s",
            mro |-> <<"S", "object">>,
            input_data_type |-> NoAttr,
            output_data_type |-> NoAttr,
            process_logic |-> [k |-> "defined",
                               params |-> <<Param("self", "empty", ""),
                                            Param("n", "str", "")>>,
                               doc |-> None],
            doc |-> None]]

(* ComponentLoader.get_class(component_name): the class, or a falsy value  *)
(* (found = FALSE) when no registered module has it.                       *)
get_class(component_name) ==
    IF component_name \in DOMAIN Classes
    THEN [found |-> TRUE, cls |-> Classes[component_name]]
    ELSE [found |-> FALSE, cls |-> <<>>]

(* A call that returns val, or that raises exc. *)
Return(val) == [ok |-> TRUE, val |-> val, exc |-> ""]

Raise(exc) == [ok |-> FALSE, val |-> <<>>, exc |-> exc]

_get_class_hierarchy(cls) ==
    SelectSeq(cls.mro, LAMBDA base : base # "object")

_get_interfaces(cls) ==
    LET inp == cls.input_data_type
        out == cls.output_data_type
        Callable(a) == a.k \in {"ok", "raises"}
        Entry(kind, a) == [interface_type |-> kind, data_type |-> a.name]
    IN IF Callable(inp) /\ inp.k = "raises" THEN Raise("TypeError")
       ELSE IF Callable(out) /\ out.k = "raises" THEN Raise("TypeError")
       ELSE Return((IF Callable(inp) THEN <<Entry("input", inp)>> ELSE <<>>)
                   \o (IF Callable(out) THEN <<Entry("output", out)>> ELSE <<>>))

_get_processing_logic(cls) ==
    LET logic == cls.process_logic
        kept == SelectSeq(logic.params, LAMBDA param : param.name # "self")
    IN IF logic.k = "absent"
       THEN Return([error |-> "Processing logic not defined"])
       ELSE IF \E j \in 1..Len(kept) : kept[j].ann = "str"
       THEN Raise("AttributeError")
       ELSE Return([parameters |->
                       [j \in 1..Len(kept) |->
                           [name |-> kept[j].name,
                            type |-> IF kept[j].ann # "empty"
                                     THEN kept[j].tname ELSE "Unknown"]],
                    description |-> logic.doc])

(* get_metadata without lines 52-53: an unknown name raises *)
get_metadata_NotFoundRaises(component_name) ==
    LET component_class == get_class(component_name)
        cls == component_class.cls
        interfaces == _get_interfaces(cls)
        processing_logic == _get_processing_logic(cls)
    IN IF ~component_class.found THEN Raise("AttributeError")
       ELSE IF ~interfaces.ok THEN Raise(interfaces.exc)
       ELSE IF ~processing_logic.ok THEN Raise(processing_logic.exc)
       ELSE Return([component_name |-> component_name,
                    module_path |-> cls.module,
                    class_hierarchy |-> _get_class_hierarchy(cls),
                    interfaces |-> interfaces.val,
                    processing_logic |-> processing_logic.val,
                    docstring |-> cls.doc])

get_metadata(component_name) ==
    LET component_class == get_class(component_name)
        cls == component_class.cls
        interfaces == _get_interfaces(cls)
        processing_logic == _get_processing_logic(cls)
    IN IF ~component_class.found
       THEN Return([error |-> "Component '" \o component_name \o "' not found."])
       ELSE IF ~interfaces.ok THEN Raise(interfaces.exc)
       ELSE IF ~processing_logic.ok THEN Raise(processing_logic.exc)
       ELSE Return([component_name |-> component_name,
                    module_path |-> cls.module,
                    class_hierarchy |-> _get_class_hierarchy(cls),
                    interfaces |-> interfaces.val,
                    processing_logic |-> processing_logic.val,
                    docstring |-> cls.doc])

----------------------------------------------------------------------------
(* WorkflowExplainer._generate_prompt *)

(* d.get(key, default) on a metadata record *)
DictGet(d, key, default) == IF key \in DOMAIN d THEN d[key] ELSE default

(* node.get("parameters") *)
NodeParameters(node) == IF node.parameters.t = "absent" THEN None ELSE node.parameters

(* the filter without its "or node.get('parameters') is None" *)
IsRendered_OnlyDict(node) == NodeParameters(node).t = "dict"

(* isinstance(node.get("parameters"), dict) or node.get("parameters") is None *)
IsRendered(node) == NodeParameters(node).t \in {"dict", "none"}

(* one "    - key: value" line per item of (node.get("parameters") or {}) *)
ParameterLines(node) ==
    LET parameters == IF Truthy(NodeParameters(node))
                      THEN NodeParameters(node).items ELSE <<>>
    IN [j \in 1..Len(parameters) |->
           "    - " \o parameters[j][1] \o ": " \o parameters[j][2]]

(* the block of the node that enumerate() numbers idx0 (0-based) *)
StepBlock(idx0, node) ==
    "- Step " \o ToString(idx0 + 1) \o ": "
        \o PyStr(IF node.processor.t = "absent" THEN None ELSE node.processor)
        \o "\n"
    \o "  Context Keyword: "
        \o (IF node.context_keyword.t = "absent" THEN "None"
            ELSE PyStr(node.context_keyword))
        \o "\n"
    \o "  Parameters:\n"
    \o Join("\n", ParameterLines(node))

(* the 1-based positions of the nodes that pass the comprehension's filter *)
RECURSIVE RenderedPositions(_, _)
RenderedPositions(nodes, from) ==
    IF from > Len(nodes) THEN <<>>
    ELSE (IF IsRendered(nodes[from]) THEN <<from>> ELSE <<>>)
         \o RenderedPositions(nodes, from + 1)

(* the blocks numbered after the filter instead of by enumerate *)
PipelineStructure_Renumbered(nodes) ==
    LET kept == RenderedPositions(nodes, 1)
    IN Join("\n", [j \in 1..Len(kept) |-> StepBlock(j - 1, nodes[kept[j]])])

PipelineStructure(nodes) ==
    LET kept == RenderedPositions(nodes, 1)
    IN Join("\n", [j \in 1..Len(kept) |-> StepBlock(kept[j] - 1, nodes[kept[j]])])

InterfaceLines(comp) ==
    LET interfaces == DictGet(comp, "interfaces", <<>>)
        ok == SelectSeq(interfaces, LAMBDA iface :
                  "interface_type" \in DOMAIN iface /\ "data_type" \in DOMAIN iface)
    IN [j \in 1..Len(ok) |->
           "    - " \o ok[j].interface_type \o ": " \o ok[j].data_type]

ProcessingLogicLines(comp) ==
    LET parameters == DictGet(DictGet(comp, "processing_logic", [x \in {} |-> x]),
                              "parameters", <<>>)
        ok == SelectSeq(parameters, LAMBDA param :
                  "name" \in DOMAIN param /\ "type" \in DOMAIN param)
    IN [j \in 1..Len(ok) |-> "    - " \o ok[j].name \o ": " \o ok[j].type]

(* f"  Description: {comp.get('docstring', 'No description available.')}" *)
DescriptionLine(comp) ==
    "  Description: "
        \o PyStr(DictGet(comp, "docstring", Str("No description available.")))

ComponentBlock(comp) ==
    "- " \o comp.component_name \o ":\n"
    \o DescriptionLine(comp) \o "\n"
    \o "  Module: " \o DictGet(comp, "module_path", "Unknown") \o "\n"
    \o "  Class Hierarchy: " \o Join(", ", DictGet(comp, "class_hierarchy", <<>>)) \o "\n"
    \o "  Interfaces:\n"
    \o Join("\n", InterfaceLines(comp))
    \o "\n  Processing Logic:\n"
    \o Join("\n", ProcessingLogicLines(comp))

ComponentDescriptions(comps) ==
    Join("\n", [j \in 1..Len(comps) |-> ComponentBlock(comps[j])])

_generate_prompt(nodes, comps) ==
    "\n        You are an AI workflow assistant. Given the following pipeline configuration, \n"
    \o "        explain how it works in a clear and structured manner.\n"
    \o "\n"
    \o "        **Pipeline Configuration:**\n"
    \o "        " \o PipelineStructure(nodes) \o "\n"
    \o "\n"
    \o "        **Component Details:**\n"
    \o "        " \o ComponentDescriptions(comps) \o "\n"
    \o "\n"
    \o "        Provide a detailed, structured, and human-readable explanation of the workflow.\n"
    \o "        "

----------------------------------------------------------------------------
(* The text-completion service: LLMFactory.get_llm and generate_response   *)

(* the providers LLMFactory.get_llm accepts *)
Providers == {"openai", "mock"}

(* what openai.ChatCompletion.create can do: answer with a message content *)
(* or raise an exception whose str() is s                                  *)
ApiOutcomes ==
    {[k |-> "content", s |-> "The workflow scales an image."],
     [k |-> "content", s |-> "Error: I cannot explain this."],
     [k |-> "exception", s |-> "Connection refused"]}

(* MockLLM.generate_response(prompt), parameters = None *)
MockGenerateResponse(p) ==
    "Mock LLM response with parameters {} to prompt:\n" \o p

(* OpenAILLM.generate_response(prompt) when the API call ends in outcome *)
OpenAIGenerateResponse(p, outcome) ==
    IF outcome.k = "content" THEN outcome.s ELSE "Error: " \o outcome.s

(* the responses self.llm.generate_response(prompt) can return *)
GenerateResponses(provider, p) ==
    IF provider = "mock" THEN {MockGenerateResponse(p)}
    ELSE {OpenAIGenerateResponse(p, o) : o \in ApiOutcomes}

----------------------------------------------------------------------------
(* The node configurations the model passes to explain *)

(* processors the registry resolves and whose metadata extraction returns *)
GoodProcessors == {Str("A"), Str("B")}

(* a missing processor (absent, empty), a class whose metadata extraction  *)
(* raises ("F", "S"), and "U", a name no registered module has             *)
FaultyProcessors == {Absent, Str(""), Str("F"), Str("S"), Str("U")}

(* <<context_keyword, parameters>> of a node *)
NodeShapes ==
    {<<Absent, Absent>>,
     <<Str("k"), Dict(<<<<"p", "1">>>>)>>,
     <<Absent, None>>,
     <<Absent, List(<<"x">>)>>}

FaultyNodeShapes ==
    {<<Absent, Absent>>,
     <<Str("k"), Dict(<<<<"p", "1">>>>)>>}

MakeNode(p, sh) == [processor |-> p, context_keyword |-> sh[1], parameters |-> sh[2]]

Nodes ==
    {MakeNode(p, sh) : p \in GoodProcessors, sh \in NodeShapes}
    \cup {MakeNode(p, sh) : p \in FaultyProcessors, sh \in FaultyNodeShapes}

NodeLists == UNION {[1..n -> Nodes] : n \in 0..MaxSteps}

----------------------------------------------------------------------------
(* WorkflowExplainer *)

(* __init__ with LLM_PROVIDER naming a provider LLMFactory.get_llm accepts *)
Init ==
    /\ llm \in Providers
    /\ pc = "idle"
    /\ node_configurations = <<>>
    /\ idx = 0
    /\ processor_name = None
    /\ components = <<>>
    /\ prompt = ""
    /\ result = ""
    /\ raised = ""
    /\ get_class_calls = <<>>
    /\ compose_calls = <<>>
    /\ llm_calls = <<>>

(* explain without lines 56-57: an empty list runs through the loop *)
Explain_NoEmptyCheck(nodes) ==
    /\ pc = "idle"
    /\ node_configurations' = nodes
    /\ processor_name' = None
    /\ components' = <<>>
    /\ prompt' = ""
    /\ raised' = ""
    /\ get_class_calls' = <<>>
    /\ compose_calls' = <<>>
    /\ llm_calls' = <<>>
    /\ result' = ""
    /\ IF nodes = <<>>
       THEN pc' = "compose" /\ idx' = 0
       ELSE pc' = "check" /\ idx' = 1
    /\ UNCHANGED llm

(* explain(nodes) is called: lines 56-59 *)
Explain(nodes) ==
    /\ pc = "idle"
    /\ node_configurations' = nodes
    /\ processor_name' = None
    /\ components' = <<>>
    /\ prompt' = ""
    /\ raised' = ""
    /\ get_class_calls' = <<>>
    /\ compose_calls' = <<>>
    /\ llm_calls' = <<>>
    /\ IF nodes = <<>>
       THEN /\ result' = "The provided workflow configuration is empty."
            /\ pc' = "returned"
            /\ idx' = 0
       ELSE /\ result' = ""
            /\ pc' = "check"
            /\ idx' = 1
    /\ UNCHANGED llm

(* lines 60-63: the processor check of the node the loop is at *)
CheckProcessor ==
    /\ pc = "check"
    /\ LET node == node_configurations[idx]
           name == IF node.processor.t = "absent" THEN None ELSE node.processor
       IN IF ~Truthy(name)
          THEN /\ processor_name' = name
               /\ result' = "Error: Missing 'processor' key in node configuration: "
                               \o NodeRepr(node)
               /\ pc' = "returned"
          ELSE /\ processor_name' = name
               /\ pc' = "extract"
               /\ UNCHANGED result
    /\ UNCHANGED <<llm, node_configurations, idx, components, prompt, raised,
                   get_class_calls, compose_calls, llm_calls>>

(* the loop keeping one record per distinct component name *)
ExtractMetadata_Dedup ==
    /\ pc = "extract"
    /\ get_class_calls' = Append(get_class_calls, processor_name.s)
    /\ LET metadata == get_metadata(processor_name.s)
       IN IF ~metadata.ok
          THEN /\ raised' = metadata.exc
               /\ pc' = "raised"
               /\ UNCHANGED <<result, components, idx>>
          ELSE IF "error" \in DOMAIN metadata.val
          THEN /\ result' = "Error: " \o metadata.val.error
               /\ pc' = "returned"
               /\ UNCHANGED <<raised, components, idx>>
          ELSE /\ components' =
                     IF \E j \in 1..Len(components) : components[j] = metadata.val
                     THEN components ELSE Append(components, metadata.val)
               /\ IF idx < Len(node_configurations)
                  THEN idx' = idx + 1 /\ pc' = "check"
                  ELSE idx' = idx /\ pc' = "compose"
               /\ UNCHANGED <<raised, result>>
    /\ UNCHANGED <<llm, node_configurations, processor_name, prompt,
                   compose_calls, llm_calls>>

(* the loop taking the error nested in processing_logic for a failure *)
ExtractMetadata_NestedErrorFatal ==
    /\ pc = "extract"
    /\ get_class_calls' = Append(get_class_calls, processor_name.s)
    /\ LET metadata == get_metadata(processor_name.s)
       IN IF ~metadata.ok
          THEN /\ raised' = metadata.exc
               /\ pc' = "raised"
               /\ UNCHANGED <<result, components, idx>>
          ELSE IF "error" \in DOMAIN metadata.val
          THEN /\ result' = "Error: " \o metadata.val.error
               /\ pc' = "returned"
               /\ UNCHANGED <<raised, components, idx>>
          ELSE IF "error" \in DOMAIN metadata.val.processing_logic
          THEN /\ result' = "Error: " \o metadata.val.processing_logic.error
               /\ pc' = "returned"
               /\ UNCHANGED <<raised, components, idx>>
          ELSE /\ components' = Append(components, metadata.val)
               /\ IF idx < Len(node_configurations)
                  THEN idx' = idx + 1 /\ pc' = "check"
                  ELSE idx' = idx /\ pc' = "compose"
               /\ UNCHANGED <<raised, result>>
    /\ UNCHANGED <<llm, node_configurations, processor_name, prompt,
                   compose_calls, llm_calls>>

(* lines 65-69: metadata extraction for the node the loop is at, and the   *)
(* loop's advance                                                          *)
ExtractMetadata ==
    /\ pc = "extract"
    /\ get_class_calls' = Append(get_class_calls, processor_name.s)
    /\ LET metadata == get_metadata(processor_name.s)
       IN IF ~metadata.ok
          THEN /\ raised' = metadata.exc
               /\ pc' = "raised"
               /\ UNCHANGED <<result, components, idx>>
          ELSE IF "error" \in DOMAIN metadata.val
          THEN /\ result' = "Error: " \o metadata.val.error
               /\ pc' = "returned"
               /\ UNCHANGED <<raised, components, idx>>
          ELSE /\ components' = Append(components, metadata.val)
               /\ IF idx < Len(node_configurations)
                  THEN idx' = idx + 1 /\ pc' = "check"
                  ELSE idx' = idx /\ pc' = "compose"
               /\ UNCHANGED <<raised, result>>
    /\ UNCHANGED <<llm, node_configurations, processor_name, prompt,
                   compose_calls, llm_calls>>

(* lines 71-75: the prompt is composed from the nodes and their metadata *)
GeneratePrompt ==
    /\ pc = "compose"
    /\ compose_calls' = Append(compose_calls,
                               [nodes |-> node_configurations, comps |-> components])
    /\ prompt' = _generate_prompt(node_configurations, components)
    /\ pc' = "llm"
    /\ UNCHANGED <<llm, node_configurations, idx, processor_name, components,
                   result, raised, get_class_calls, llm_calls>>

(* line 76: return self.llm.generate_response(prompt) *)
GenerateResponse ==
    /\ pc = "llm"
    /\ \E response \in GenerateResponses(llm, prompt) :
          /\ llm_calls' = Append(llm_calls, [prompt |-> prompt, response |-> response])
          /\ result' = response
    /\ pc' = "returned"
    /\ UNCHANGED <<llm, node_configurations, idx, processor_name, components,
                   prompt, raised, get_class_calls, compose_calls>>

(* the call is over: the caller has the string or the exception, and the   *)
(* locals of explain are gone; the explainer keeps only self.llm           *)
Finish ==
    /\ pc \in {"returned", "raised"}
    /\ pc' = "idle"
    /\ node_configurations' = <<>>
    /\ idx' = 0
    /\ processor_name' = None
    /\ components' = <<>>
    /\ prompt' = ""
    /\ result' = ""
    /\ raised' = ""
    /\ get_class_calls' = <<>>
    /\ compose_calls' = <<>>
    /\ llm_calls' = <<>>
    /\ UNCHANGED llm

Next ==
    \/ \E nodes \in NodeLists : Explain(nodes)
    \/ Finish
    \/ CheckProcessor
    \/ ExtractMetadata
    \/ GeneratePrompt
    \/ GenerateResponse

Spec == Init /\ [][Next]_vars

----------------------------------------------------------------------------
(* Vocabulary of the properties *)

(* sub occurs in s *)
Contains(s, sub) ==
    \E i \in 1..(Len(s) - Len(sub) + 1) : SubSeq(s, i, i + Len(sub) - 1) = sub

(* the positions at which sub occurs in s *)
Positions(s, sub) ==
    {i \in 1..(Len(s) - Len(sub) + 1) : SubSeq(s, i, i + Len(sub) - 1) = sub}

(* the explain call is over *)
Terminal == pc \in {"returned", "raised"}

(* the node has a non-empty processor *)
HasProcessor(node) == node.processor.t = "str" /\ node.processor.s # ""

(* the node has a non-empty processor that the registry resolves *)
Resolves(node) == HasProcessor(node) /\ node.processor.s \in DOMAIN Classes

(* the node has a non-empty processor that the registry cannot resolve *)
Unresolvable(node) == HasProcessor(node) /\ node.processor.s \notin DOMAIN Classes

(* the node's parameters field is present and neither a mapping nor null *)
MalformedParameters(node) == node.parameters.t \notin {"absent", "none", "dict"}

(* the class declares no _process_logic *)
LacksProcessLogic(name) ==
    name \in DOMAIN Classes /\ Classes[name].process_logic.k = "absent"

(* the line that opens the block of the node at 1-based position i *)
StepLabel(i, node) == "- Step " \o ToString(i) \o ": " \o node.processor.s \o "\n"

(* the message for a node without processor *)
MissingProcessorError(node) ==
    "Error: Missing 'processor' key in node configuration: " \o NodeRepr(node)

----------------------------------------------------------------------------
(* C1: for every non-empty node list whose nodes all have a non-empty      *)
(* processor that the registry resolves, explain returns exactly the       *)
(* string generate_response returned for the composed prompt.              *)
(* Stated as the claim; the code violates it when metadata extraction of a *)
(* resolved class raises (see C5).                                         *)
C1_ReturnsVerbatimResponse ==
    (/\ Terminal
     /\ node_configurations # <<>>
     /\ \A i \in 1..Len(node_configurations) : Resolves(node_configurations[i]))
    => /\ pc = "returned"
       /\ Len(llm_calls) = 1
       /\ llm_calls[1].prompt = prompt
       /\ result = llm_calls[1].response

(* C2: if node k is the first node whose processor is absent or empty and  *)
(* every earlier node resolves, explain returns the missing-processor      *)
(* error with node k's content and the registry is never asked for node k  *)
(* or a later node.                                                        *)
(* Stated as the claim; the code violates it when metadata extraction of   *)
(* an earlier, resolved class raises (see C5).                             *)
C2_MissingProcessorShortCircuits ==
    \A k \in 1..Len(node_configurations) :
        (/\ Terminal
         /\ ~HasProcessor(node_configurations[k])
         /\ \A j \in 1..(k - 1) : Resolves(node_configurations[j]))
        => /\ pc = "returned"
           /\ result = MissingProcessorError(node_configurations[k])
           /\ Len(get_class_calls) = k - 1

(* C3 as stated: if the registry cannot resolve the processor name of some *)
(* node, explain returns "Error: " and the not-found message of the first  *)
(* such node, without extraction for later nodes and without composing.    *)
C3_UnresolvedIsReported ==
    \A k \in 1..Len(node_configurations) :
        (/\ Terminal
         /\ Unresolvable(node_configurations[k])
         /\ \A j \in 1..(k - 1) : ~Unresolvable(node_configurations[j]))
        => /\ pc = "returned"
           /\ result = "Error: Component '" \o node_configurations[k].processor.s
                          \o "' not found."
           /\ Len(get_class_calls) = k
           /\ compose_calls = <<>>

(* C3 amended: whenever get_metadata is called for a node whose processor  *)
(* name the registry cannot resolve, it returns a record with an error key *)
(* instead of raising, and explain returns "Error: " and that message,     *)
(* with no extraction for a later node, no composed prompt and no call of  *)
(* the text-completion service.                                            *)
C3_UnresolvedCallIsReported ==
    \A k \in 1..Len(get_class_calls) :
        get_class_calls[k] \notin DOMAIN Classes
        => /\ pc = "returned"
           /\ k = Len(get_class_calls)
           /\ node_configurations[k].processor.s = get_class_calls[k]
           /\ result = "Error: Component '" \o get_class_calls[k] \o "' not found."
           /\ Len(components) = k - 1
           /\ compose_calls = <<>>
           /\ llm_calls = <<>>

(* the second node is the unresolvable one, and the first was extracted *)
C3_Witness ==
    /\ pc = "returned"
    /\ Len(get_class_calls) = 2
    /\ get_class_calls[2] = "U"
    /\ result = "Error: Component 'U' not found."

(* C4: explain of an empty list returns exactly the fixed message, and     *)
(* that is the end of the call: no registry lookup, no prompt composition, *)
(* no text-completion call.                                                *)
C4_EmptyListMessage ==
    node_configurations = <<>>
    => /\ pc \in {"idle", "returned"}
       /\ pc = "returned" => result = "The provided workflow configuration is empty."
       /\ get_class_calls = <<>>
       /\ compose_calls = <<>>
       /\ llm_calls = <<>>
       /\ prompt = ""

C4_Witness ==
    /\ pc = "returned"
    /\ node_configurations = <<>>
    /\ result = "The provided workflow configuration is empty."

(* C5: every invocation of explain ends by returning a string; no          *)
(* exception leaves explain.                                               *)
(* Stated as the claim; the code lets the exceptions of _get_interfaces    *)
(* and _get_processing_logic through.                                      *)
C5_NoExceptionEscapes == pc # "raised"

(* C6: whenever _generate_prompt is invoked, the metadata list is as long  *)
(* as the node list and record i was extracted from node i's processor.    *)
C6_MetadataParallelToNodes ==
    \A c \in 1..Len(compose_calls) :
        LET call == compose_calls[c]
        IN /\ call.nodes = node_configurations
           /\ Len(call.comps) = Len(call.nodes)
           /\ \A i \in 1..Len(call.nodes) :
                 /\ call.comps[i].component_name = call.nodes[i].processor.s
                 /\ call.comps[i].module_path
                       = Classes[call.nodes[i].processor.s].module

(* the composer was invoked for two nodes with the same processor name *)
C6_Witness ==
    /\ Len(compose_calls) = 1
    /\ Len(compose_calls[1].nodes) = 2
    /\ compose_calls[1].nodes[1].processor = compose_calls[1].nodes[2].processor

(* C7: a metadata record whose docstring is null is rendered in the        *)
(* component-details section with the description text                     *)
(* "No description available.".                                            *)
(* Stated as the claim; the code renders "None".                           *)
C7_NullDocstringFallback ==
    pc = "llm"
    => \A i \in 1..Len(components) :
          components[i].docstring = None
          => Contains(prompt, "- " \o components[i].component_name
                                 \o ":\n  Description: No description available.\n")

(* C8: a node whose parameters field is present and neither a mapping nor  *)
(* null is left out of the pipeline-structure section, every other node is *)
(* rendered there, and neither the composer nor explain fails on it: the   *)
(* prompt is sent to the text-completion service.                          *)
C8_MalformedParametersSkipped ==
    /\ pc = "llm"
       => \A i \in 1..Len(node_configurations) :
             Contains(prompt, StepLabel(i, node_configurations[i]))
             <=> ~MalformedParameters(node_configurations[i])
    /\ (/\ Terminal
        /\ Len(components) = Len(node_configurations)
        /\ \E i \in 1..Len(node_configurations) :
              MalformedParameters(node_configurations[i]))
       => /\ pc = "returned"
          /\ Len(compose_calls) = 1
          /\ Len(llm_calls) = 1
          /\ llm_calls[1].prompt = prompt
          /\ result = llm_calls[1].response

(* a prompt with a rendered and a left-out node was sent *)
C8_Witness ==
    /\ pc = "returned"
    /\ Len(llm_calls) = 1
    /\ Len(node_configurations) = 2
    /\ MalformedParameters(node_configurations[1])
    /\ ~MalformedParameters(node_configurations[2])

(* C9: a class without _process_logic yields a complete record whose       *)
(* processing_logic is {"error": "Processing logic not defined"}; explain  *)
(* does not return an error for it but goes on with the remaining nodes,   *)
(* the composer renders an empty "Processing Logic:" sub-list for it, and  *)
(* the text-completion service is called.                                  *)
(* The first conjunct speaks of every get_metadata call that returned: a   *)
(* call that raised is the last one of a call of explain that raised.      *)
C9_NestedErrorIsNotFatal ==
    /\ \A k \in 1..Len(get_class_calls) :
          (LacksProcessLogic(get_class_calls[k]) /\ (pc = "raised" => k < Len(get_class_calls)))
          => /\ k <= Len(components)
             /\ DOMAIN components[k] = {"component_name", "module_path", "class_hierarchy",
                                        "interfaces", "processing_logic", "docstring"}
             /\ components[k].component_name = get_class_calls[k]
             /\ components[k].processing_logic = [error |-> "Processing logic not defined"]
             /\ pc = "returned" /\ k = Len(node_configurations) => Len(llm_calls) = 1
    /\ result # "Error: Processing logic not defined"
    /\ pc = "llm"
       => /\ Cardinality(Positions(prompt, "  Processing Logic:\n\n"))
                = Cardinality({i \in 1..Len(components) :
                                  LacksProcessLogic(components[i].component_name)})
          /\ \A i \in 1..Len(components) :
                LacksProcessLogic(components[i].component_name)
                => Contains(prompt, "- " \o components[i].component_name \o ":\n")

(* a class without _process_logic came first, a second node was extracted *)
(* after it, and the text-completion service was called                    *)
C9_Witness ==
    /\ pc = "returned"
    /\ Len(get_class_calls) = 2
    /\ LacksProcessLogic(get_class_calls[1])
    /\ ~LacksProcessLogic(get_class_calls[2])
    /\ Len(llm_calls) = 1

(* C10: the step blocks of the pipeline-structure section appear in the    *)
(* order of the node list, the block of the node at 0-based position i is  *)
(* labelled "Step i+1: <processor>", and a node left out of the section    *)
(* does not change the label of any other node.                            *)
C10_StepLabelsFollowInputOrder ==
    pc = "llm"
    => LET kept == {i \in 1..Len(node_configurations) :
                       ~MalformedParameters(node_configurations[i])}
           At(i) == Positions(prompt, StepLabel(i, node_configurations[i]))
       IN /\ \A i \in kept : Cardinality(At(i)) = 1
          /\ \A i, j \in kept :
                i < j => \A a \in At(i), b \in At(j) : a < b
          /\ Cardinality(Positions(prompt, "- Step ")) = Cardinality(kept)

(* the first node is left out and the second keeps the label "Step 2" *)
C10_Witness ==
    /\ pc = "llm"
    /\ Len(node_configurations) = 2
    /\ MalformedParameters(node_configurations[1])
    /\ Contains(prompt, "- Step 2: ")

(* the node is faulty: it has no processor, or a processor the registry    *)
(* cannot resolve                                                          *)
Faulty(node) == ~HasProcessor(node) \/ Unresolvable(node)

(* the error string explain returns for a faulty node *)
FaultReport(node) ==
    IF ~HasProcessor(node) THEN MissingProcessorError(node)
    ELSE "Error: Component '" \o node.processor.s \o "' not found."

(* C11: within one explain call the nodes are checked and extracted in     *)
(* list order, one node fully (processor check, then extraction) before    *)
(* the next; the text-completion service is invoked at most once and only  *)
(* after every node passed the processor check and metadata extraction; on *)
(* every early return the service is never invoked; and the result reports *)
(* the first faulty node in list order.                                    *)
(* Stated as the claim; the ordering and the at-most-once parts hold of    *)
(* the code, the last part fails when metadata extraction of an earlier,   *)
(* resolved class raises (see C5).                                         *)
C11_SequentialAndFirstFaultReported ==
    /\ \A k \in 1..Len(get_class_calls) :
          /\ HasProcessor(node_configurations[k])
          /\ get_class_calls[k] = node_configurations[k].processor.s
    /\ pc = "check" => Len(get_class_calls) = idx - 1
    /\ pc = "extract"
       => /\ Len(get_class_calls) = idx - 1
          /\ HasProcessor(node_configurations[idx])
          /\ processor_name = node_configurations[idx].processor
    /\ Len(components) <= Len(get_class_calls)
    /\ Len(llm_calls) <= 1
    /\ llm_calls # <<>>
       => /\ node_configurations # <<>>
          /\ Len(get_class_calls) = Len(node_configurations)
          /\ Len(components) = Len(node_configurations)
          /\ \A k \in 1..Len(node_configurations) : Resolves(node_configurations[k])
    /\ (pc = "returned"
        /\ (node_configurations = <<>>
            \/ \E k \in 1..Len(node_configurations) : Faulty(node_configurations[k])))
       => llm_calls = <<>>
    /\ \A k \in 1..Len(node_configurations) :
          (/\ Terminal
           /\ Faulty(node_configurations[k])
           /\ \A j \in 1..(k - 1) : ~Faulty(node_configurations[j]))
          => /\ pc = "returned"
             /\ result = FaultReport(node_configurations[k])

====
